---- MODULE Spec2Model ----
(***************************************************************************)
(* The crossword constraint solver of src/crossword/generate.py            *)
(* (class CrosswordCreator): node consistency, AC-3 propagation and        *)
(* backtracking search over the domain store self.domains.                 *)
(*                                                                         *)
(* Python positions are 0-based; sequences here are 1-based, so a letter   *)
(* position k of the source is position k+1 of the model.  self.domains    *)
(* is a reference to a dict: the model keeps the dict objects in `heap`    *)
(* and the reference in `cur`, so that `self.domains = domains_copy`       *)
(* (an aliasing assignment, not a copy) is modelled as what it is.         *)
(***************************************************************************)
EXTENDS Integers, Sequences, FiniteSets, TLC

VARIABLES
    crossword,   \* self.crossword: [variables, words], fixed after __init__
    heap,        \* the dict objects that self.domains / domains_copy refer to
    cur,         \* self.domains: index into heap of the object it refers to
    assignment,  \* the one dict `assignment` shared by all backtrack frames
    stack,       \* active backtrack frames, outermost first
    arcs,        \* the list `arcs` of the running ac3 call
    call,        \* the running / last ac3 or public call: its caller, whether
                 \* arcs was None, and the value of self.domains at its entry
    ret,         \* value returned by the last ac3 / backtrack call
    pc           \* control location

vars == <<crossword, heap, cur, assignment, stack, arcs, call, ret, pc>>

----------------------------------------------------------------------------
(* Bounds of the model *)

\* largest dictionary (number of words) drawn from WordPool
MaxWords == 3

\* longest caller-supplied arc list given to ac3 through the public method
MaxArcs == 2

----------------------------------------------------------------------------
(* Puzzle model: Variable and Crossword (crossword.py, the collaborator of *)
(* generate.py line 3; spec section 3 and 6).                              *)

ACROSS == "across"
DOWN == "down"

Variable(i, j, direction, length) ==
    [i |-> i, j |-> j, direction |-> direction, length |-> length]

\* Variable.cells: cell k of the slot, in order
cells(v) ==
    [k \in 1..v.length |->
        <<v.i + (IF v.direction = DOWN THEN k - 1 ELSE 0),
          v.j + (IF v.direction = ACROSS THEN k - 1 ELSE 0)>>]

Range(s) == {s[k] : k \in DOMAIN s}

\* set(x.cells) & set(y.cells)
overlap_cells(x, y) == Range(cells(x)) \cap Range(cells(y))

\* x.cells.index(cell), 1-based
cell_index(x, cell) == CHOOSE k \in 1..x.length : cells(x)[k] = cell

\* Crossword.neighbors(var): the other variables sharing a cell with var
neighbors(var) ==
    {v \in crossword.variables : v # var /\ overlap_cells(v, var) # {}}

\* The puzzles the model is run on (each is the variable set of a grid).
\* one slot of length 3
PuzzleOne == {Variable(0, 0, ACROSS, 3)}
\* v of length 3 and w of length 4 with v.cells[1] = w.cells[0] (0-based)
PuzzleTwo == {Variable(0, 0, ACROSS, 3), Variable(0, 1, DOWN, 4)}
\* three slots of length 3 in a C shape: A[0]=B[0], B[2]=C[0] (0-based)
PuzzleC == {Variable(0, 0, ACROSS, 3), Variable(0, 0, DOWN, 3),
            Variable(2, 0, ACROSS, 3)}
\* two slots that share no cell
PuzzleIso == {Variable(0, 0, ACROSS, 3), Variable(2, 0, ACROSS, 4)}

Puzzles == {PuzzleOne, PuzzleTwo, PuzzleC, PuzzleIso}

WordPool ==
    { <<"a","n","t">>, <<"t","e","a">>, <<"t","i","t">>, <<"c","a","t">>,
      <<"t","i","d","e">>, <<"a","n","t","e">> }

Dictionaries == {ws \in SUBSET WordPool : Cardinality(ws) <= MaxWords}

----------------------------------------------------------------------------
(* Helpers for Python's unordered iteration: a set is listed in any order. *)

Perms(S) ==
    {p \in [1..Cardinality(S) -> S] : \A a, b \in DOMAIN p : a # b => p[a] # p[b]}

InSeq(e, s) == \E k \in DOMAIN s : s[k] = e

self_domains == heap[cur]

\* return values: None, True, False, the assignment dict, or nothing yet
NoValue == "NoValue"
None == "None"
RetTrue == "True"
RetFalse == "False"
RetAssignment == "assignment"

----------------------------------------------------------------------------
(* CrosswordCreator.__init__ *)

\* self.domains = {var: self.crossword.words.copy() for var in variables}
init_domains(cw) == [v \in cw.variables |-> cw.words]

Constructed ==
    /\ crossword \in [variables : Puzzles, words : Dictionaries]
    /\ heap = <<init_domains(crossword)>>
    /\ cur = 1
    /\ assignment = <<>>
    /\ stack = <<>>
    /\ arcs = <<>>
    /\ call = [caller |-> NoValue, full |-> FALSE, pre |-> <<>>, args |-> <<>>]
    /\ ret = NoValue

----------------------------------------------------------------------------
(* enforce_node_consistency *)

enforce_node_consistency_drop_short(d) ==
    [v \in DOMAIN d |-> {val \in d[v] : Len(val) >= v.length}]

enforce_node_consistency_twice_differs(d) ==
    [v \in DOMAIN d |->
        IF \A val \in d[v] : Len(val) = v.length
        THEN {val \in d[v] : val # (CHOOSE w \in d[v] : TRUE)}
        ELSE {val \in d[v] : Len(val) = v.length}]

enforce_node_consistency(d) ==
    [v \in DOMAIN d |-> {val \in d[v] : Len(val) = v.length}]

NodeConsistent(d) == \A v \in DOMAIN d : \A w \in d[v] : Len(w) = v.length

----------------------------------------------------------------------------
(* revise *)

\* index_x, index_y of the overlap cell (the puzzles share at most one cell
\* per pair, so overlap_cell[0] is that cell)
overlap_cell(x, y) == CHOOSE c \in overlap_cells(x, y) : TRUE
index_x(x, y) == cell_index(x, overlap_cell(x, y))
index_y(x, y) == cell_index(y, overlap_cell(x, y))

\* word_x[index_x] or word_y[index_y] out of range raises IndexError
revise_raises(d, x, y) ==
    /\ overlap_cells(x, y) # {}
    /\ \E word_x \in d[x], word_y \in d[y] :
          \/ index_x(x, y) > Len(word_x)
          \/ index_y(x, y) > Len(word_y)

revise_keeps_unsupported(d, x, y) == d

revise_drops_supported(d, x, y) ==
    IF overlap_cells(x, y) = {} THEN d
    ELSE [d EXCEPT ![x] =
            {word_x \in d[x] :
                \A word_y \in d[y] :
                    word_x[index_x(x, y)] = word_y[index_y(x, y)]}]

\* the domain store after revise(x, y)
revise(d, x, y) ==
    IF overlap_cells(x, y) = {} THEN d
    ELSE [d EXCEPT ![x] =
            {word_x \in d[x] :
                \E word_y \in d[y] :
                    word_x[index_x(x, y)] = word_y[index_y(x, y)]}]

revision_if_overlap(d, x, y) == overlap_cells(x, y) # {}

\* the value revise(x, y) returns
revision(d, x, y) == revise(d, x, y) # d

----------------------------------------------------------------------------
(* ac3 *)

\* arcs = list(set((var, x) for var in domains for x in neighbors(var)))
all_arcs == {<<var, x>> : var \in crossword.variables, x \in crossword.variables}
            \cap {a \in crossword.variables \X crossword.variables :
                    a[2] \in neighbors(a[1])}

RECURSIVE enqueue(_, _, _)
\* for var in neighbors: if (var, x) not in arcs: arcs.append((var, x))
enqueue(q, order, x) ==
    IF order = <<>> THEN q
    ELSE enqueue(IF InSeq(<<Head(order), x>>, q) THEN q
                 ELSE Append(q, <<Head(order), x>>),
                 Tail(order), x)

popped_not_removed(q) == q

\* what arcs.pop(0) leaves in the list
popped(q) == Tail(q)

reenqueued_none(x, y) == {}

\* neighbors = self.crossword.neighbors(x).copy(); neighbors.remove(y)
reenqueued(x, y) == neighbors(x) \ {y}

\* len(self.domains[x]) == 0
ac3_is_empty(dom) == dom = {}

\* entry of ac3(arcs): arcs is None (is_none) or the caller's list `given`
ac3_enter(caller, is_none, given) ==
    /\ IF is_none
       THEN arcs' \in Perms(all_arcs)
       ELSE arcs' = given
    /\ call' = [caller |-> caller, full |-> is_none, pre |-> self_domains,
                args |-> given]
    /\ ret' = NoValue
    /\ pc' = "ac3"

\* one iteration of `while arcs:` (lines 143-152)
Ac3Step ==
    /\ pc = "ac3"
    /\ arcs # <<>>
    /\ LET x == Head(arcs)[1]
           y == Head(arcs)[2]
           rest == popped(arcs)
       IN  IF revise_raises(self_domains, x, y)
           THEN /\ pc' = "raised"
                /\ arcs' = rest
                /\ UNCHANGED <<heap, ret>>
           ELSE IF revision(self_domains, x, y)
           THEN /\ heap' = [heap EXCEPT ![cur] = revise(self_domains, x, y)]
                /\ IF ac3_is_empty(revise(self_domains, x, y)[x])
                   THEN /\ ret' = RetFalse
                        /\ pc' = "ac3_return"
                        /\ arcs' = rest
                   ELSE IF y \notin neighbors(x)
                   THEN /\ pc' = "raised"
                        /\ arcs' = rest
                        /\ ret' = ret
                   ELSE /\ \E order \in Perms(reenqueued(x, y)) :
                              arcs' = enqueue(rest, order, x)
                        /\ UNCHANGED <<pc, ret>>
           ELSE /\ arcs' = rest
                /\ UNCHANGED <<heap, pc, ret>>
    /\ UNCHANGED <<crossword, cur, assignment, stack, call>>

\* the loop ends: return True (line 153)
Ac3Exit ==
    /\ pc = "ac3"
    /\ arcs = <<>>
    /\ ret' = RetTrue
    /\ pc' = "ac3_return"
    /\ UNCHANGED <<crossword, heap, cur, assignment, stack, arcs, call>>

----------------------------------------------------------------------------
(* assignment_complete, consistent *)

\* assignment[var] = val
assign(a, var, val) ==
    [v \in (DOMAIN a) \cup {var} |-> IF v = var THEN val ELSE a[v]]

unassign_keeps_var(a, var) == a

\* del assignment[var]
unassign(a, var) == [v \in (DOMAIN a) \ {var} |-> a[v]]

\* all([var in assignment for var in self.domains])
assignment_complete(a) == \A var \in DOMAIN self_domains : var \in DOMAIN a

consistent_ignores_duplicates(a) ==
    \A variable \in DOMAIN a :
        /\ variable.length = Len(a[variable])
        /\ \A neighbor \in neighbors(variable) :
              neighbor \in DOMAIN a =>
                 a[neighbor][index_y(variable, neighbor)]
                    = a[variable][index_x(variable, neighbor)]

consistent_ignores_overlaps(a) ==
    \A variable \in DOMAIN a :
        /\ variable.length = Len(a[variable])
        /\ Cardinality({u \in DOMAIN a : a[u] = a[variable]}) = 1

\* consistent(assignment): the loop leaves `consistent` True only if no
\* variable fails the length, uniqueness or overlap test
consistent(a) ==
    \A variable \in DOMAIN a :
        /\ variable.length = Len(a[variable])
        /\ Cardinality({u \in DOMAIN a : a[u] = a[variable]}) = 1
        /\ \A neighbor \in neighbors(variable) :
              neighbor \in DOMAIN a =>
                 a[neighbor][index_y(variable, neighbor)]
                    = a[variable][index_x(variable, neighbor)]

----------------------------------------------------------------------------
(* order_domain_values, select_unassigned_variable *)

RECURSIVE SumOver(_, _)
SumOver(S, f) ==
    IF S = {} THEN 0
    ELSE LET e == CHOOSE e \in S : TRUE
         IN  f[e] + SumOver(S \ {e}, f)

\* constraints_dict[var_word]
constraints(d, var, a, var_word) ==
    LET unassigned_neighbors == {n \in neighbors(var) : n \notin DOMAIN a}
        incorrect == [n \in unassigned_neighbors |->
                        Cardinality({word_neighbor \in d[n] :
                            var_word[index_x(var, n)]
                               # word_neighbor[index_y(var, n)]})]
    IN  SumOver(unassigned_neighbors, incorrect)

order_domain_values_unsorted(d, var, a) == Perms(d[var])

\* the lists order_domain_values(var, assignment) may return: the domain of
\* var sorted by constraints_dict; the sort is stable over an arbitrary
\* iteration order, so ties come in any order
order_domain_values(d, var, a) ==
    {p \in Perms(d[var]) :
        \A i, k \in DOMAIN p :
            i < k => constraints(d, var, a, p[i]) <= constraints(d, var, a, p[k])}

select_unassigned_variable_ignores_degree(d, a) ==
    LET unassigned == (DOMAIN d) \ (DOMAIN a)
    IN  {x \in unassigned :
            \A y \in unassigned : Cardinality(d[x]) <= Cardinality(d[y])}

\* the variables select_unassigned_variable(assignment) may return
select_unassigned_variable(d, a) ==
    LET unassigned == (DOMAIN d) \ (DOMAIN a)
        before(x, y) ==
            \/ Cardinality(d[x]) < Cardinality(d[y])
            \/ /\ Cardinality(d[x]) = Cardinality(d[y])
               /\ Cardinality(neighbors(x)) > Cardinality(neighbors(y))
    IN  {x \in unassigned : \A y \in unassigned : ~before(y, x)}

----------------------------------------------------------------------------
(* backtrack *)

\* the frame of the running backtrack call and the dict its domains_copy names
top == stack[Len(stack)]
domains_copy == Len(stack) + 1

\* copy.deepcopy(self.domains)
deepcopy(d) == d

\* self.domains = domains_copy: the reference is rebound, nothing is copied
\* (the pair is the heap and the new self.domains)
restore(h, c, frame) == <<SubSeq(h, 1, domains_copy), domains_copy>>

\* the end of one pass of the candidate loop that did not return:
\* del assignment[var]; self.domains = domains_copy (lines 240-241)
next_candidate ==
    /\ assignment' = unassign(assignment, top.var)
    /\ heap' = restore(heap, cur, top)[1]
    /\ cur' = restore(heap, cur, top)[2]
    /\ stack' = [stack EXCEPT ![Len(stack)].i = @ + 1]
    /\ pc' = "loop"

\* entry of backtrack(assignment) up to the start of the loop (lines 230-234)
BacktrackEnter ==
    /\ pc = "backtrack"
    /\ IF assignment_complete(assignment)
       THEN /\ ret' = RetAssignment
            /\ pc' = "backtrack_return"
            /\ UNCHANGED <<heap, stack>>
       ELSE /\ \E var \in select_unassigned_variable(self_domains, assignment) :
               \E vals \in order_domain_values(self_domains, var, assignment) :
                  stack' = Append(stack, [var |-> var, vals |-> vals, i |-> 1,
                                          entry |-> self_domains])
            /\ heap' = Append(SubSeq(heap, 1, Len(stack) + 1), deepcopy(self_domains))
            /\ pc' = "loop"
            /\ ret' = NoValue
    /\ UNCHANGED <<crossword, cur, assignment, arcs, call>>

\* one candidate: assignment[var] = val; if consistent, collapse the domain
\* and call backtrack; otherwise undo (lines 235-237, 240-241)
BacktrackTry ==
    /\ pc = "loop"
    /\ top.i <= Len(top.vals)
    /\ LET var == top.var
           val == top.vals[top.i]
       IN  IF consistent(assign(assignment, var, val))
           THEN /\ assignment' = assign(assignment, var, val)
                /\ heap' = [heap EXCEPT ![cur][var] = {val}]
                /\ pc' = "backtrack"
                /\ UNCHANGED <<cur, stack>>
           ELSE next_candidate
    /\ UNCHANGED <<crossword, arcs, call, ret>>

\* the loop is exhausted: return None (line 242)
BacktrackExhausted ==
    /\ pc = "loop"
    /\ top.i > Len(top.vals)
    /\ stack' = SubSeq(stack, 1, Len(stack) - 1)
    /\ ret' = None
    /\ pc' = "backtrack_return"
    /\ UNCHANGED <<crossword, heap, cur, assignment, arcs, call>>

\* the recursive call of line 238 returned None: result is falsy, ac3 is
\* not called, the pass ends
BacktrackReturnNone ==
    /\ pc = "backtrack_return"
    /\ stack # <<>>
    /\ ret = None
    /\ next_candidate
    /\ UNCHANGED <<crossword, arcs, call, ret>>

\* the recursive call returned the assignment: call
\* ac3([(other_var, var) for other_var in neighbors(var)])
BacktrackReturnResult ==
    /\ pc = "backtrack_return"
    /\ stack # <<>>
    /\ ret = RetAssignment
    /\ \E given \in Perms({<<other_var, top.var>> : other_var \in neighbors(top.var)}) :
          ac3_enter("backtrack", FALSE, given)
    /\ UNCHANGED <<crossword, heap, cur, assignment, stack>>

\* ac3 returned to line 238: return result, or end the pass
Ac3ReturnBacktrack ==
    /\ pc = "ac3_return"
    /\ call.caller = "backtrack"
    /\ IF ret = RetTrue
       THEN /\ stack' = SubSeq(stack, 1, Len(stack) - 1)
            /\ ret' = RetAssignment
            /\ pc' = "backtrack_return"
            /\ UNCHANGED <<heap, cur, assignment>>
       ELSE /\ next_candidate
            /\ UNCHANGED ret
    /\ UNCHANGED <<crossword, arcs, call>>

----------------------------------------------------------------------------
(* solve *)

\* self.enforce_node_consistency() (line 92)
SolveEnforce ==
    /\ pc = "solve"
    /\ heap' = [heap EXCEPT ![cur] = enforce_node_consistency(self_domains)]
    /\ pc' = "solve_ac3"
    /\ UNCHANGED <<crossword, cur, assignment, stack, arcs, call, ret>>

\* self.ac3() (line 93)
SolveAc3 ==
    /\ pc = "solve_ac3"
    /\ ac3_enter("solve", TRUE, <<>>)
    /\ UNCHANGED <<crossword, heap, cur, assignment, stack>>

\* the value of self.ac3() is dropped; return self.backtrack(dict()) (line 94)
Ac3ReturnSolve ==
    /\ pc = "ac3_return"
    /\ call.caller = "solve"
    /\ pc' = "backtrack"
    /\ UNCHANGED <<crossword, heap, cur, assignment, stack, arcs, call, ret>>

\* the outermost backtrack call returns: solve returns its value
SolveReturn ==
    /\ pc = "backtrack_return"
    /\ stack = <<>>
    /\ pc' = "done"
    /\ UNCHANGED <<crossword, heap, cur, assignment, stack, arcs, call, ret>>

Init == Constructed /\ pc = "solve"

Next ==
    \/ SolveEnforce
    \/ SolveAc3
    \/ Ac3Step
    \/ Ac3Exit
    \/ Ac3ReturnSolve
    \/ BacktrackEnter
    \/ BacktrackTry
    \/ BacktrackExhausted
    \/ BacktrackReturnNone
    \/ BacktrackReturnResult
    \/ Ac3ReturnBacktrack
    \/ SolveReturn

\* main(): creator = CrosswordCreator(crossword); creator.solve()
Spec == Init /\ [][Next]_vars

----------------------------------------------------------------------------
(* The public methods called one at a time on a constructed creator, as a  *)
(* unit test does: enforce_node_consistency(), revise(x, y), ac3(arcs).    *)

ApiEnforce ==
    /\ pc = "idle"
    /\ heap' = [heap EXCEPT ![cur] = enforce_node_consistency(self_domains)]
    /\ call' = [caller |-> "enforce", full |-> FALSE, pre |-> self_domains,
                args |-> <<>>]
    /\ UNCHANGED <<crossword, cur, assignment, stack, arcs, ret, pc>>

\* revise(x, y) on any two variables of the puzzle
ApiRevise ==
    /\ pc = "idle"
    /\ \E x, y \in crossword.variables :
          /\ x # y
          /\ call' = [caller |-> "revise", full |-> FALSE, pre |-> self_domains,
                      args |-> <<x, y>>]
          /\ IF revise_raises(self_domains, x, y)
             THEN /\ pc' = "raised"
                  /\ UNCHANGED <<heap, ret>>
             ELSE /\ heap' = [heap EXCEPT ![cur] = revise(self_domains, x, y)]
                  /\ ret' = IF revision(self_domains, x, y) THEN RetTrue ELSE RetFalse
                  /\ pc' = pc
    /\ UNCHANGED <<crossword, cur, assignment, stack, arcs>>

\* the arc lists a caller hands to ac3: neighboring pairs, in any order
ArcLists ==
    UNION {[1..n -> all_arcs] : n \in 0..MaxArcs}

\* ac3() or ac3(arcs)
ApiAc3 ==
    /\ pc = "idle"
    /\ \/ ac3_enter("api", TRUE, <<>>)
       \/ \E given \in ArcLists : ac3_enter("api", FALSE, given)
    /\ UNCHANGED <<crossword, heap, cur, assignment, stack>>

Ac3ReturnApi ==
    /\ pc = "ac3_return"
    /\ call.caller = "api"
    /\ pc' = "idle"
    /\ UNCHANGED <<crossword, heap, cur, assignment, stack, arcs, call, ret>>

InitApi == Constructed /\ pc = "idle"

NextApi ==
    \/ ApiEnforce
    \/ ApiRevise
    \/ ApiAc3
    \/ Ac3Step
    \/ Ac3Exit
    \/ Ac3ReturnApi

SpecApi == InitApi /\ [][NextApi]_vars

\* ac3 called again and again on one creator after node consistency; a
\* running call keeps running, because the interpreter executes the loop
NextAc3 ==
    \/ ApiEnforce
    \/ ApiAc3
    \/ Ac3Step
    \/ Ac3Exit
    \/ Ac3ReturnApi

FairSpecAc3 ==
    InitApi /\ [][NextAc3]_vars /\ WF_vars(Ac3Step) /\ WF_vars(Ac3Exit)

----------------------------------------------------------------------------
(* Properties *)

\* a complete assignment that gives every variable a word of its length,
\* uses pairwise distinct words and agrees at every overlap
ValidAssignment(a) ==
    /\ DOMAIN a = crossword.variables
    /\ \A v \in crossword.variables : a[v] \in crossword.words /\ Len(a[v]) = v.length
    /\ \A u, v \in crossword.variables : u # v => a[u] # a[v]
    /\ \A u \in crossword.variables : \A v \in neighbors(u) :
          a[u][index_x(u, v)] = a[v][index_y(u, v)]

Solutions ==
    {a \in [crossword.variables -> crossword.words] :
        /\ \A v \in crossword.variables : Len(a[v]) = v.length
        /\ ValidAssignment(a)}

Within(a, d) == \A v \in DOMAIN d : a[v] \in d[v]

HasEmptyDomain(d) == \E v \in DOMAIN d : d[v] = {}

ArcConsistent(d) ==
    \A x \in DOMAIN d : \A y \in neighbors(x) :
        \A word_x \in d[x] :
            \E word_y \in d[y] : word_x[index_x(x, y)] = word_y[index_y(x, y)]

cat == <<"c","a","t">>
tide == <<"t","i","d","e">>

\* C1: whenever the puzzle has a valid assignment, solve() does not
\* return None (stated of the returned value; the code violates it).
C1_Completeness ==
    (pc = "done" /\ Solutions # {}) => ret = RetAssignment

\* C2: an assignment returned by solve() covers every variable, gives each
\* a dictionary word of its length, repeats no word and agrees at every
\* overlap of neighboring variables.
C2_SolutionValidity ==
    (pc = "done" /\ ret = RetAssignment) => ValidAssignment(assignment)

C2_Witness ==
    /\ pc = "done"
    /\ ret = RetAssignment
    /\ crossword.variables = PuzzleC
    /\ Cardinality(crossword.words) = 3

\* C3: after a failed candidate, and when the call returns None, the domain
\* store equals the store the call was entered with (the value snapshotted
\* before the candidate loop); the code violates it.
C3_DomainsRestored ==
    pc = "loop" => self_domains = top.entry

\* C4: when ac3() with no arcs on node-consistent domains returns True the
\* store is arc consistent for every ordered pair of neighbors, and when it
\* returns False some domain is empty.
C4_ArcConsistentAfterAc3 ==
    (pc = "ac3_return" /\ call.full /\ NodeConsistent(call.pre)) =>
        /\ ret = RetTrue => ArcConsistent(self_domains)
        /\ ret = RetFalse => HasEmptyDomain(self_domains)

C4_Witness ==
    /\ pc = "ac3_return"
    /\ call.full
    /\ NodeConsistent(call.pre)
    /\ ret = RetTrue
    /\ ~ArcConsistent(call.pre)
    /\ ~HasEmptyDomain(self_domains)
    /\ crossword.variables = PuzzleC

\* C5: ac3 returns True only if no domain is empty when it returns, also
\* for domains that were empty before the run; the code violates it.
C5_TrueOnlyIfNoEmptyDomain ==
    (pc = "ac3_return" /\ NodeConsistent(call.pre) /\ ret = RetTrue) =>
        ~HasEmptyDomain(self_domains)

\* C6: a run of ac3 (full or on a given arc list) on node-consistent
\* domains keeps every word of every valid assignment whose words were all
\* in the domains at entry, and does not return False when there is one.
C6_PropagationKeepsSolutions ==
    (pc \in {"ac3", "ac3_return"} /\ NodeConsistent(call.pre)) =>
        \A a \in Solutions :
            Within(a, call.pre) => (Within(a, self_domains) /\ ret # RetFalse)

C6_Witness ==
    /\ pc = "ac3_return"
    /\ ~call.full
    /\ NodeConsistent(call.pre)
    /\ \E a \in Solutions : Within(a, call.pre)
    /\ self_domains # call.pre

\* C7: for a puzzle without a valid assignment solve() raises nothing, can
\* always take its next step until it returns, and returns None.
C7_UnsatisfiableReturnsNone ==
    Solutions = {} =>
        /\ pc # "raised"
        /\ pc = "done" => ret = None
        /\ pc # "done" => ENABLED Next

C7_Witness ==
    /\ pc = "done"
    /\ ret = None
    /\ crossword.variables = PuzzleTwo
    /\ crossword.words = {cat, tide}
    /\ HasEmptyDomain(heap[1])

\* C8: right after enforce_node_consistency the domain of every variable is
\* exactly the set of dictionary words of the variable's length.
C8_NodeConsistency ==
    pc = "solve_ac3" =>
        \A v \in crossword.variables :
            /\ \A w \in crossword.words : Len(w) = v.length => w \in self_domains[v]
            /\ \A w \in self_domains[v] : w \in crossword.words /\ Len(w) = v.length

C8_Witness ==
    /\ pc = "solve_ac3"
    /\ \E v \in crossword.variables :
          /\ self_domains[v] # {}
          /\ self_domains[v] # crossword.words

\* C9: enforce_node_consistency applied to a node-consistent store leaves
\* every domain as it was.
C9_NodeConsistencyIdempotent ==
    (call.caller = "enforce" /\ NodeConsistent(call.pre)) => self_domains = call.pre

C9_Witness ==
    /\ call.caller = "enforce"
    /\ NodeConsistent(call.pre)
    /\ ~NodeConsistent(init_domains(crossword))
    /\ \E v \in crossword.variables : self_domains[v] # {}

\* C10: every ac3 call on node-consistent domains, whatever arc list it is
\* given, returns.
C10_Ac3Terminates ==
    (pc = "ac3" /\ NodeConsistent(call.pre)) ~> (pc = "ac3_return")

C10_Witness ==
    /\ pc = "ac3_return"
    /\ call.caller = "api"
    /\ ~call.full
    /\ NodeConsistent(call.pre)
    /\ Len(call.args) = MaxArcs
    /\ self_domains # call.pre

\* C11: after revise(x, y) on overlapping x and y the domain of x holds
\* exactly the old words of x that agree with some word of y at the overlap,
\* every other domain is as before, and True is returned exactly when a
\* word was removed; without a shared cell nothing changes and the result
\* is False.
C11_ReviseResult ==
    (call.caller = "revise" /\ pc = "idle") =>
        LET x == call.args[1]
            y == call.args[2]
            old == call.pre
        IN  IF overlap_cells(x, y) # {}
            THEN /\ \A w \in old[x] :
                       w \in self_domains[x] <=>
                          \E wy \in old[y] : w[index_x(x, y)] = wy[index_y(x, y)]
                 /\ self_domains[x] \subseteq old[x]
                 /\ \A v \in crossword.variables : v # x => self_domains[v] = old[v]
                 /\ ret = RetTrue <=> self_domains[x] # old[x]
                 /\ ret \in {RetTrue, RetFalse}
            ELSE self_domains = old /\ ret = RetFalse

C11_Witness ==
    /\ call.caller = "revise"
    /\ pc = "idle"
    /\ NodeConsistent(call.pre)
    /\ overlap_cells(call.args[1], call.args[2]) # {}
    /\ self_domains[call.args[1]] # call.pre[call.args[1]]
    /\ self_domains[call.args[1]] # {}
    /\ ret = RetTrue

\* C12: when an ac3 step removed a word from domain(x) for the popped arc
\* (x, y) and left domain(x) non-empty, the queue after the step is the rest
\* of the queue followed by the arcs (z, x), z a neighbor of x other than y,
\* that were not already queued, each once: so every such (z, x) is queued
\* before the next pop, (y, x) is not added and nothing is added twice.
C12_ReenqueueRule ==
    [][ (/\ pc = "ac3"
         /\ arcs # <<>>
         /\ heap' # heap
         /\ heap'[cur][Head(arcs)[1]] # {})
        =>
        LET x == Head(arcs)[1]
            y == Head(arcs)[2]
            rest == Tail(arcs)
            added == SubSeq(arcs', Len(rest) + 1, Len(arcs'))
        IN  /\ pc' = "ac3"
            /\ Len(arcs') >= Len(rest)
            /\ SubSeq(arcs', 1, Len(rest)) = rest
            /\ \A z \in neighbors(x) : z # y => InSeq(<<z, x>>, arcs')
            /\ Range(added) = {<<z, x>> : z \in neighbors(x) \ {y}} \ Range(rest)
            /\ Cardinality(Range(added)) = Len(added)
            /\ ~InSeq(<<y, x>>, added)
      ]_vars

\* an ac3 call given one arc whose revision queued an arc the caller had
\* not supplied
C12_Witness ==
    /\ pc = "ac3"
    /\ ~call.full
    /\ Len(call.args) = 1
    /\ self_domains # call.pre
    /\ arcs # <<>>
    /\ ~InSeq(arcs[1], call.args)
    /\ arcs[1][2] = call.args[1][1]

\* C13: for every candidate that passed the consistency check, the
\* propagation run on the arcs (neighbor, var) is started when the
\* recursive attempt for it comes back, whether that attempt succeeded or
\* not; the code violates it.
C13_PropagationForEveryCandidate ==
    [][ (pc = "backtrack_return" /\ stack # <<>>) =>
            (/\ pc' = "ac3"
             /\ call'.caller = "backtrack"
             /\ Range(arcs') = {<<other_var, top.var>> : other_var \in neighbors(top.var)})
      ]_vars

\* C14: whenever backtrack is about to set assignment[var] = val, val is in
\* the domain that the domain store holds for var at that moment, for the
\* first and for every later candidate of the loop.
C14_AssignedWordInDomain ==
    (pc = "loop" /\ top.i <= Len(top.vals)) =>
        top.vals[top.i] \in self_domains[top.var]

\* C15: the variable a backtrack call selects is unassigned, has the fewest
\* words in its domain among the unassigned variables and, among those with
\* as few, the most neighbors.
C15_VariableSelection ==
    (pc = "loop" /\ top.i = 1) =>
        LET d == top.entry
            unassigned == crossword.variables \ DOMAIN assignment
        IN  /\ top.var \in unassigned
            /\ \A u \in unassigned :
                  /\ Cardinality(d[top.var]) <= Cardinality(d[u])
                  /\ Cardinality(d[u]) = Cardinality(d[top.var]) =>
                        Cardinality(neighbors(u)) <= Cardinality(neighbors(top.var))

\* a selection decided by the number of neighbors, with a variable already
\* assigned
C15_Witness ==
    /\ pc = "loop"
    /\ top.i = 1
    /\ DOMAIN assignment # {}
    /\ \E u \in crossword.variables \ DOMAIN assignment :
          /\ Cardinality(top.entry[u]) = Cardinality(top.entry[top.var])
          /\ Cardinality(neighbors(u)) < Cardinality(neighbors(top.var))

\* the words of the domains of var's unassigned neighbors that disagree
\* with `word` at the overlap, each with its neighbor
Disagreeing(d, var, a, word) ==
    {nw \in neighbors(var) \X crossword.words :
        /\ nw[1] \notin DOMAIN a
        /\ nw[2] \in d[nw[1]]
        /\ word[index_x(var, nw[1])] # nw[2][index_y(var, nw[1])]}

ActiveFrames == Len(stack) + (IF pc = "backtrack" THEN 1 ELSE 0)

\* C17: a backtrack call is entered with as many assigned variables as it
\* has callers, one more than the call that made it, so the active calls
\* never number more than the variables plus one.
C17_BoundedRecursion ==
    /\ pc = "backtrack" => Cardinality(DOMAIN assignment) = Len(stack)
    /\ ActiveFrames <= Cardinality(crossword.variables) + 1

\* the deepest call: every variable assigned, one frame per variable and
\* the call that finds the assignment complete
C17_Witness ==
    /\ pc = "backtrack"
    /\ crossword.variables = PuzzleC
    /\ Len(stack) = 3
    /\ ActiveFrames = 4

\* C18: throughout every ac3 run started by backtrack the assignment is
\* complete and each variable's domain is the singleton of its assigned
\* word, so the run removes nothing and does not return False: it prunes no
\* domain during search and rejects no candidate.
C18_SearchPropagationIsVacuous ==
    (pc \in {"ac3", "ac3_return"} /\ call.caller = "backtrack") =>
        /\ DOMAIN assignment = crossword.variables
        /\ \A v \in crossword.variables : self_domains[v] = {assignment[v]}
        /\ self_domains = call.pre
        /\ ret # RetFalse

\* such a run, finished, for a variable with two neighbors and a candidate
\* that was not the first one tried
C18_Witness ==
    /\ pc = "ac3_return"
    /\ call.caller = "backtrack"
    /\ ret = RetTrue
    /\ Len(call.args) = 2
    /\ top.i > 1

====
